---- MODULE Spec2Model ----
(***************************************************************************)
(* A model of pym/gentoolkit/metadata.py: the MetaData reader of Gentoo's  *)
(* metadata.xml, its three record builders (_Maintainer, _Useflag,         *)
(* _Upstream) and its four lazily cached accessors.                        *)
(*                                                                         *)
(* A Python str is a sequence of one-character strings; the value None of  *)
(* a str-or-None field is the one-element sequence None, whose element is  *)
(* no character of any text.  A parsed tree is the sequence of its elements*)
(* in document (depth-first pre-order) order; an element refers to its     *)
(* parent and to its last descendant by position.                          *)
(***************************************************************************)
EXTENDS Integers, Sequences, FiniteSets, TLC

\* ------------------------------------------------------------- strings

None == <<"None">>

Truthy(s) == s # None /\ s # <<>>

Whitespace == {" ", "\n", "\t"}

\* str.__contains__: c occurs in d as a contiguous run
IsSubstr(c, d) ==
    \E k \in 0..(Len(d) - Len(c)) : SubSeq(d, k + 1, k + Len(c)) = c

\* re.sub(r"\s+", " ", s)
RECURSIVE Collapse(_)
Collapse(s) ==
    IF s = <<>> THEN <<>>
    ELSE IF Head(s) \in Whitespace
         THEN IF Len(s) > 1 /\ s[2] \in Whitespace
              THEN Collapse(Tail(s))
              ELSE <<" ">> \o Collapse(Tail(s))
         ELSE <<Head(s)>> \o Collapse(Tail(s))

\* ------------------------------------------------------- the XML file

AttrNames == {"restrict", "status", "name", "lang", "type"}

NoAttrs == [n \in AttrNames |-> None]

Open(tag, attrs) == [k |-> "open", tag |-> tag, attrs |-> attrs, data |-> <<>>]

Close(tag) == [k |-> "close", tag |-> tag, attrs |-> NoAttrs, data |-> <<>>]

Data(s) == [k |-> "data", tag |-> "", attrs |-> NoAttrs, data |-> s]

\* <tag>text</tag>, and <tag/> when text is empty
Leaf(tag, attrs, text) ==
    <<Open(tag, attrs)>> \o (IF text = <<>> THEN <<>> ELSE <<Data(text)>>)
        \o <<Close(tag)>>

Elem(tag, attrs, inner) == <<Open(tag, attrs)>> \o inner \o <<Close(tag)>>

\* --------------------------------------------------- etree.parse(path)

NewNode(tok, parent, self) ==
    [tag |-> tok.tag, attrs |-> tok.attrs, text |-> None, tail |-> None,
     parent |-> parent, last |-> self]

Join(old, data) == IF old = None THEN data ELSE old \o data

AllWhite(s) == \A i \in 1..Len(s) : s[i] \in Whitespace

\* The parser's state: the elements built so far, the stack of open elements,
\* the element closed last since the last start tag (0: none, character data
\* is the text of the innermost open element; otherwise it is that element's
\* tail), and whether the document element has been closed.
ParseStart == [nodes |-> <<>>, stack |-> <<>>, closed |-> 0, rootDone |-> FALSE,
               ok |-> TRUE]

ParseFail(st) == [st EXCEPT !.ok = FALSE]

ParseToken(st, tok) ==
    IF tok.k = "open" THEN
        IF st.rootDone THEN ParseFail(st)
        ELSE LET self == Len(st.nodes) + 1
                 parent == IF st.stack = <<>> THEN 0 ELSE st.stack[Len(st.stack)]
             IN  [st EXCEPT !.nodes = Append(@, NewNode(tok, parent, self)),
                            !.stack = Append(@, self),
                            !.closed = 0]
    ELSE IF tok.k = "close" THEN
        IF st.stack = <<>> THEN ParseFail(st)
        ELSE LET top == st.stack[Len(st.stack)]
             IN  IF st.nodes[top].tag # tok.tag THEN ParseFail(st)
                 ELSE [st EXCEPT !.nodes[top].last = Len(st.nodes),
                                 !.stack = SubSeq(@, 1, Len(@) - 1),
                                 !.closed = top,
                                 !.rootDone = (Len(st.stack) = 1)]
    ELSE
        IF st.stack = <<>> THEN
            IF AllWhite(tok.data) THEN st ELSE ParseFail(st)
        ELSE IF st.closed = 0 THEN
            LET top == st.stack[Len(st.stack)]
            IN  [st EXCEPT !.nodes[top].text = Join(@, tok.data)]
        ELSE [st EXCEPT !.nodes[st.closed].tail = Join(@, tok.data)]

RECURSIVE ParseFrom(_, _, _)
ParseFrom(tokens, k, st) ==
    IF ~st.ok THEN st
    ELSE IF k > Len(tokens) THEN (IF st.rootDone THEN st ELSE ParseFail(st))
    ELSE ParseFrom(tokens, k + 1, ParseToken(st, tokens[k]))

\* A file is [exists, tokens].  The outcome is the tree, or the error raised.
etree_parse(file) ==
    IF ~file.exists THEN [err |-> "ReadError", tree |-> <<>>]
    ELSE LET st == ParseFrom(file.tokens, 1, ParseStart)
         IN  IF st.ok THEN [err |-> "", tree |-> st.nodes]
             ELSE [err |-> "ParseError", tree |-> <<>>]

\* ----------------------------------------------------- tree traversal

Range(lo, hi) == [k \in 1..(hi - lo + 1) |-> lo + k - 1]

RECURSIVE Filter(_, _, _)
Filter(tree, idx, tag) ==
    IF idx = <<>> THEN <<>>
    ELSE (IF tree[Head(idx)].tag = tag THEN <<Head(idx)>> ELSE <<>>)
            \o Filter(tree, Tail(idx), tag)

RECURSIVE FilterParent(_, _, _)
FilterParent(tree, idx, p) ==
    IF idx = <<>> THEN <<>>
    ELSE (IF tree[Head(idx)].parent = p THEN <<Head(idx)>> ELSE <<>>)
            \o FilterParent(tree, Tail(idx), p)

\* Element.iter(): the element itself, then its descendants, in document order
Iter(tree, i) == IF tree = <<>> THEN <<>> ELSE Range(i, tree[i].last)

\* Element.findall(tag): the direct children with that tag, in document order
FindAll(tree, i, tag) ==
    IF tree = <<>> THEN <<>>
    ELSE FilterParent(tree, Filter(tree, Iter(tree, i), tag), i)

\* ElementTree.iter(tag): every element of the tree with that tag
IterTag(tree, tag) == Filter(tree, Iter(tree, 1), tag)

\* ------------------------------------------------- _Maintainer(node)

\* Names setattr() refuses on an instance of a plain class when the value is
\* a str or None: __class__ and __dict__ raise TypeError, __weakref__ raises
\* AttributeError.
Unsettable == {"__class__", "__dict__", "__weakref__"}

\* As SetAttr, but a field an element has set is kept (first write wins)
SetAttrFirst(rec, n, v) ==
    [x \in (DOMAIN rec) \cup {n} |->
        IF x = n /\ (n \notin DOMAIN rec \/ rec[n] = None) THEN v ELSE rec[x]]

SetAttr(rec, n, v) == [x \in (DOMAIN rec) \cup {n} |-> IF x = n THEN v ELSE rec[x]]

MaintainerStart(node) ==
    [email |-> None, name |-> None, description |-> None,
     restrict |-> node.attrs.restrict, status |-> node.attrs.status]

\* for attr in node.iter(): setattr(self, attr.tag, attr.text)
RECURSIVE SetAll(_, _, _)
SetAll(tree, idx, rec) ==
    IF idx = <<>> THEN [ok |-> TRUE, val |-> rec]
    ELSE LET e == tree[Head(idx)]
         IN  IF e.tag \in Unsettable THEN [ok |-> FALSE, val |-> rec]
             ELSE SetAll(tree, Tail(idx), SetAttr(rec, e.tag, e.text))

\* [ok, val]: ok is FALSE when the constructor raises
Maintainer(tree, i) == SetAll(tree, Iter(tree, i), MaintainerStart(tree[i]))

\* ---------------------------------------------------- _Useflag(node)

\* _desc = ""; if node.text: _desc = node.text
DescStart(node) == IF Truthy(node.text) THEN node.text ELSE <<>>

\* As AppendsChunk, without the test for duplicate text
AppendsChunkAlways(desc, chunk) == Truthy(chunk)

\* if chunk and chunk not in _desc: _desc += chunk
AppendsChunk(desc, chunk) == Truthy(chunk) /\ ~IsSubstr(chunk, desc)

AppendChunk(desc, chunk) == IF AppendsChunk(desc, chunk) THEN desc \o chunk ELSE desc

\* The elements the loop "for child in node.iter()" visits
FlagChildren(tree, i) == Iter(tree, i)

RECURSIVE Accumulate(_, _, _)
Accumulate(tree, idx, desc) ==
    IF idx = <<>> THEN desc
    ELSE LET child == tree[Head(idx)]
         IN  Accumulate(tree, Tail(idx),
                        AppendChunk(AppendChunk(desc, child.text), child.tail))

Useflag(tree, i) ==
    [name |-> tree[i].attrs.name,
     restrict |-> tree[i].attrs.restrict,
     description |->
        Collapse(Accumulate(tree, FlagChildren(tree, i), DescStart(tree[i])))]

\* --------------------------------------------------- _Upstream(node)

RECURSIVE Texts(_, _)
Texts(tree, idx) ==
    IF idx = <<>> THEN <<>> ELSE <<tree[Head(idx)].text>> \o Texts(tree, Tail(idx))

upstream_bugtrackers(tree, i) == Texts(tree, FindAll(tree, i, "bugs-to"))

upstream_changelogs(tree, i) == Texts(tree, FindAll(tree, i, "changelog"))

DocPair(e) == <<e.text, e.attrs.lang>>

RECURSIVE DocPairs(_, _)
DocPairs(tree, idx) ==
    IF idx = <<>> THEN <<>>
    ELSE <<DocPair(tree[Head(idx)])>> \o DocPairs(tree, Tail(idx))

upstream_documentation(tree, i) == DocPairs(tree, FindAll(tree, i, "doc"))

RECURSIVE Maintainers(_, _, _)
Maintainers(tree, idx, acc) ==
    IF idx = <<>> THEN [ok |-> TRUE, val |-> acc]
    ELSE LET m == Maintainer(tree, Head(idx))
         IN  IF m.ok THEN Maintainers(tree, Tail(idx), Append(acc, m.val))
             ELSE [ok |-> FALSE, val |-> acc]

upstream_maintainers(tree, i) == Maintainers(tree, FindAll(tree, i, "maintainer"), <<>>)

RemoteId(e) == <<e.text, e.attrs.type>>

RECURSIVE RemoteIds(_, _)
RemoteIds(tree, idx) ==
    IF idx = <<>> THEN <<>>
    ELSE <<RemoteId(tree[Head(idx)])>> \o RemoteIds(tree, Tail(idx))

upstream_remoteids(tree, i) == RemoteIds(tree, FindAll(tree, i, "remote-id"))

\* [ok, val]: ok is FALSE when a maintainer's constructor raises
Upstream(tree, i) ==
    LET ms == upstream_maintainers(tree, i)
    IN  [ok |-> ms.ok,
         val |-> [node |-> i,
                  maintainers |-> ms.val,
                  changelogs |-> upstream_changelogs(tree, i),
                  docs |-> upstream_documentation(tree, i),
                  bugtrackers |-> upstream_bugtrackers(tree, i),
                  remoteids |-> upstream_remoteids(tree, i)]]

\* ------------------------------------------- the four accessors' loops

Accessors == {"descriptions", "maintainers", "use", "upstream"}

\* The elements an accessor visits, in the order it visits them
Items(a, tree) ==
    CASE a = "descriptions" -> FindAll(tree, 1, "longdescription")
      [] a = "maintainers" -> FindAll(tree, 1, "maintainer")
      [] a = "use" -> IterTag(tree, "flag")
      [] a = "upstream" -> FindAll(tree, 1, "upstream")

\* The entry an accessor builds for one element: [ok, val]
Build(a, tree, i) ==
    CASE a = "descriptions" -> [ok |-> TRUE, val |-> tree[i].text]
      [] a = "maintainers" -> Maintainer(tree, i)
      [] a = "use" -> [ok |-> TRUE, val |-> Useflag(tree, i)]
      [] a = "upstream" -> Upstream(tree, i)

\* ------------------------------------------------- the files on disk

\* Texts of the documents below
TxEnables == <<"E", "n", "a", "b", "l", "e", "s", " ">>
TxBar == <<"b", "a", "r">>
TxSupport == <<" ", "s", "u", "p", "p", "o", "r", "t", ".">>
TxStray == <<"s", "t", "r", "a", "y">>
TxNl == <<"\n", " ", " ">>
TxFoo == <<"f", "o", "o">>
TxGithub == <<"g", "i", "t", "h", "u", "b">>
TxOrgRepo == <<"o", "r", "g", "/", "r", "e", "p", "o">>
TxMail == <<"a", "@", "b", ".", "c", "o", "m">>
TxA == <<"A">>
TxB == <<"B">>
TxX == <<"X">>
TxXyz == <<"x", "y", "z">>
TxFr == <<"f", "r">>
TxActive == <<"a", "c", "t", "i", "v", "e">>
TxUrl == <<"h", "t", "t", "p", ":", "/", "/", "u", "/">>
TxUrl2 == <<"h", "t", "t", "p", ":", "/", "/", "v", "/">>
TxSf == <<"s", "o", "u", "r", "c", "e", "f", "o", "r", "g", "e">>
TxEdited == <<"e", "d", "i", "t", "e", "d">>

Attr(n, v) == [NoAttrs EXCEPT ![n] = v]

\* <flag name="foo">Enables <pkg>bar</pkg> support.</flag>
FlagFoo ==
    Elem("flag", Attr("name", TxFoo),
         <<Data(TxEnables)>> \o Leaf("pkg", NoAttrs, TxBar) \o <<Data(TxSupport)>>)

\* <maintainer><email>a@b.com</email><name>A</name><nick>xyz</nick></maintainer>
MaintNick ==
    Elem("maintainer", NoAttrs,
         Leaf("email", NoAttrs, TxMail) \o Leaf("name", NoAttrs, TxA)
            \o Leaf("nick", NoAttrs, TxXyz))

\* One upstream block with one of each kind of child
UpstreamFull ==
    Elem("upstream", NoAttrs,
         Elem("maintainer", Attr("status", TxActive), Leaf("email", NoAttrs, TxX))
            \o Leaf("changelog", NoAttrs, TxUrl)
            \o Leaf("doc", Attr("lang", TxFr), TxUrl2)
            \o Leaf("bugs-to", NoAttrs, TxUrl)
            \o Leaf("remote-id", Attr("type", TxGithub), TxOrgRepo))

DocEmpty == Leaf("pkgmetadata", NoAttrs, <<>>)

\* The document of the module's examples, laid out on lines
DocPlain ==
    Elem("pkgmetadata", NoAttrs,
         <<Data(TxNl)>> \o Leaf("longdescription", NoAttrs, TxFoo) \o <<Data(TxNl)>>
            \o MaintNick \o <<Data(TxNl)>>
            \o Elem("use", NoAttrs, <<Data(TxNl)>> \o FlagFoo \o <<Data(TxNl)>>)
            \o <<Data(TxNl)>> \o UpstreamFull \o <<Data(TxNl)>>)

\* Several elements of each kind: repeated tags below a maintainer, a flag
\* with a repeated chunk, a flag followed by text, a sparse upstream block
DocMany ==
    Elem("pkgmetadata", NoAttrs,
         Leaf("longdescription", NoAttrs, TxA)
            \o Leaf("longdescription", NoAttrs, <<>>)
            \o Elem("maintainer", Attr("restrict", TxB),
                    Leaf("email", NoAttrs, TxA)
                        \o Elem("team", NoAttrs, Leaf("email", NoAttrs, TxB))
                        \o Leaf("name", NoAttrs, <<>>))
            \o Leaf("maintainer", NoAttrs, <<>>)
            \o Elem("use", NoAttrs,
                    Elem("flag", Attr("name", TxA),
                         <<Data(TxA)>> \o Leaf("pkg", NoAttrs, TxBar) \o <<Data(TxB)>>
                            \o Leaf("pkg", NoAttrs, TxBar) \o <<Data(TxX)>>)
                        \o FlagFoo \o <<Data(TxStray)>>
                        \o Leaf("flag", NoAttrs, <<>>))
            \o Leaf("upstream", NoAttrs, <<>>)
            \o Elem("upstream", NoAttrs,
                    Leaf("remote-id", Attr("type", TxSf), TxFoo)
                        \o Leaf("doc", NoAttrs, TxUrl)
                        \o Leaf("changelog", NoAttrs, TxUrl)
                        \o Leaf("remote-id", Attr("type", TxGithub), TxOrgRepo)
                        \o Leaf("changelog", NoAttrs, TxUrl2)
                        \o Leaf("doc", Attr("lang", TxFr), TxUrl2)
                        \o Leaf("bugs-to", NoAttrs, TxMail)
                        \o Leaf("maintainer", NoAttrs, <<>>)
                        \o MaintNick))

\* Well formed, with element names that are attribute names of every object
DocDunder ==
    Elem("pkgmetadata", NoAttrs,
         MaintNick
            \o Elem("maintainer", NoAttrs,
                    Leaf("email", NoAttrs, TxB) \o Leaf("__class__", NoAttrs, TxX))
            \o Leaf("longdescription", NoAttrs, TxA)
            \o UpstreamFull
            \o Elem("upstream", NoAttrs,
                    Leaf("changelog", NoAttrs, TxUrl)
                        \o Elem("maintainer", NoAttrs, Leaf("__dict__", NoAttrs, TxX))))

\* <flag name="A">A<flag name="B">B</flag>X</flag> as the document element
DocNested ==
    Elem("flag", Attr("name", TxA),
         <<Data(TxA)>> \o Leaf("flag", Attr("name", TxB), TxB) \o <<Data(TxX)>>)

WellFormedDocs == {DocEmpty, DocPlain, DocMany, DocDunder, DocNested}

\* Elements nested in a generated flag
MaxNested == 2

\* The texts and tails of the generated flags (the empty one: no text there)
Chunks == {<<>>, <<"A">>, <<"A", "B">>, <<" ", "\n">>}

DataOf(c) == IF c = <<>> THEN <<>> ELSE <<Data(c)>>

RECURSIVE Nested(_)
Nested(kids) ==
    IF kids = <<>> THEN <<>>
    ELSE Leaf("pkg", NoAttrs, Head(kids)[1]) \o DataOf(Head(kids)[2])
            \o Nested(Tail(kids))

\* <pkgmetadata><use><flag name="foo">text kids...</flag>tail</use></pkgmetadata>
FlagDoc(text, tail, kids) ==
    Elem("pkgmetadata", NoAttrs,
         Elem("use", NoAttrs,
              Elem("flag", Attr("name", TxFoo), DataOf(text) \o Nested(kids))
                \o DataOf(tail)))

FlagDocs ==
    {FlagDoc(text, tail, kids) :
        text \in Chunks, tail \in Chunks,
        kids \in UNION {[1..n -> Chunks \X Chunks] : n \in 0..MaxNested}}

\* <pkgmetadata><unclosed>
DocUnclosed == <<Open("pkgmetadata", NoAttrs), Open("unclosed", NoAttrs)>>

\* <pkgmetadata><use></pkgmetadata>
DocMismatched ==
    <<Open("pkgmetadata", NoAttrs), Open("use", NoAttrs), Close("pkgmetadata")>>

\* <pkgmetadata/>stray
DocJunk == DocEmpty \o <<Data(TxStray)>>

MalformedDocs == {DocUnclosed, DocMismatched, DocJunk, <<>>}

File(tokens) == [exists |-> TRUE, tokens |-> tokens]

NoFile == [exists |-> FALSE, tokens |-> <<>>]

Files == {File(d) : d \in WellFormedDocs \cup MalformedDocs} \cup {NoFile}

\* ------------------------------------------------------------ bounds

\* Accessor calls made by the single caller of Spec
MaxCalls == 4

\* Changes made to the parsed tree or to the file between two calls
MaxEdits == 2

\* Threads that share one instance in SpecMT, and the calls they make
NumThreads == 2

MaxSharedCalls == 2

Threads == 1..NumThreads

\* -------------------------------------------------------------- state

VARIABLES
    mode,      \* "seq": one caller; "mt": the instance is shared by threads;
               \* "ctor": the record builders on their own
    disk,      \* the file at metadata_path
    ctor,      \* MetaData(path): "pending", "ok", or the error it raised
    inst,      \* "live" once the caller holds a MetaData instance
    tree,      \* self._xml_tree
    cache,     \* self._descriptions, _maintainers, _useflags, _upstream
    pc,        \* where each thread is in its accessor call
    op,        \* the accessor each thread is in
    todo,      \* the elements its loop has yet to visit
    ret,       \* how its last call ended: none yet, a value, or raised
    calls,     \* calls started (since the instance was shared, in "mt")
    phase,     \* "solo": only thread 1 holds the instance; "shared"
    first,     \* per accessor: the value its first returning call returned
    scans,     \* per accessor: how often the tree has been traversed
    edits,     \* changes made to the tree or the file so far
    warm,      \* the instance was shared after a full warm-up pass
    snap,      \* the cache slots as they were when the instance was shared
    obj,       \* "ctor": the record under construction or built last
    fpc,       \* "ctor": where _Useflag.__init__ is
    desc,      \* "ctor": _desc
    rest,      \* "ctor": the elements node.iter() has yet to yield
    chunk,     \* "ctor": the text or tail tested last
    appended   \* "ctor": whether it was appended

vars == <<mode, disk, ctor, inst, tree, cache, pc, op, todo, ret, calls, phase,
          first, scans, edits, warm, snap, obj, fpc, desc, rest, chunk, appended>>

ctorVars == <<obj, fpc, desc, rest, chunk, appended>>

Unset == [set |-> FALSE, val |-> <<>>]

NoRet == [kind |-> "none", op |-> "", val |-> <<>>]

NoObj == [kind |-> "none", node |-> 0, ok |-> TRUE, val |-> <<>>]

InitCommon ==
    /\ ctor = "pending"
    /\ inst = "none"
    /\ tree = <<>>
    /\ cache = [a \in Accessors |-> Unset]
    /\ pc = [t \in Threads |-> "idle"]
    /\ op = [t \in Threads |-> ""]
    /\ todo = [t \in Threads |-> <<>>]
    /\ ret = [t \in Threads |-> NoRet]
    /\ calls = 0
    /\ phase = "solo"
    /\ first = [a \in Accessors |-> [set |-> FALSE, val |-> <<>>, scans |-> 0]]
    /\ scans = [a \in Accessors |-> 0]
    /\ edits = 0
    /\ warm = FALSE
    /\ snap = [a \in Accessors |-> Unset]
    /\ obj = NoObj
    /\ fpc = "idle"
    /\ desc = <<>>
    /\ rest = <<>>
    /\ chunk = None
    /\ appended = FALSE

\* --------------------------------------------------- MetaData(path)

\* As MetaData_init, but the parse error is caught and an instance is handed
\* out with no tree
MetaData_init_swallow(file) ==
    LET r == etree_parse(file)
    IN  [ctor |-> IF r.err = "" THEN "ok" ELSE r.err,
         inst |-> "live",
         tree |-> r.tree]

\* self._xml_tree = etree.parse(metadata_path) raises out of __init__: the
\* caller gets an instance only when it does not.  The four slots start None.
MetaData_init(file) ==
    LET r == etree_parse(file)
    IN  [ctor |-> IF r.err = "" THEN "ok" ELSE r.err,
         inst |-> IF r.err = "" THEN "live" ELSE "none",
         tree |-> r.tree]

Construct ==
    /\ mode \in {"seq", "mt"}
    /\ ctor = "pending"
    /\ LET m == MetaData_init(disk)
       IN  /\ ctor' = m.ctor
           /\ inst' = m.inst
           /\ tree' = m.tree
    /\ cache' = [a \in Accessors |-> Unset]
    /\ UNCHANGED <<mode, disk, pc, op, todo, ret, calls, phase, first, scans,
                   edits, warm, snap>>
    /\ UNCHANGED ctorVars

\* ------------------------------------------------------ the accessors

\* As CacheHit, with the slots never consulted
CacheHitNever(slot) == FALSE

\* As CacheHit, testing the slot's truth ("if self._x:") instead of "is not None"
CacheHitTruthy(slot) == slot.set /\ slot.val # <<>>

\* if self._x is not None: return self._x
CacheHit(slot) == slot.set

\* As PublishesEarly, with descriptions() written like the other three
PublishesEarlyAll(a) == TRUE

\* maintainers(), use() and upstream() assign the empty list to the slot and
\* then append to it; descriptions() builds its list and then assigns it.
PublishesEarly(a) == a \in {"maintainers", "use", "upstream"}

\* [e.text for e in long_descriptions]
RECURSIVE BuildList(_, _, _, _)
BuildList(a, t, idx, acc) ==
    IF idx = <<>> THEN [ok |-> TRUE, val |-> acc]
    ELSE LET b == Build(a, t, Head(idx))
         IN  IF b.ok THEN BuildList(a, t, Tail(idx), Append(acc, b.val))
             ELSE [ok |-> FALSE, val |-> acc]

Returned(a, v) ==
    IF first[a].set THEN first
    ELSE [first EXCEPT ![a] = [set |-> TRUE, val |-> v, scans |-> scans[a]]]

\* Who may start a call: the one caller up to MaxCalls times; in "mt" thread 1
\* warms the instance up (each accessor until it has returned once), and once
\* the instance is shared every thread calls, MaxSharedCalls times in all.
MayCall(t, a) ==
    /\ inst = "live"
    /\ pc[t] = "idle"
    /\ CASE mode = "seq" -> t = 1 /\ calls < MaxCalls
         [] mode = "mt" /\ phase = "solo" -> t = 1 /\ ~first[a].set
         [] mode = "mt" /\ phase = "shared" -> calls < MaxSharedCalls
         [] OTHER -> FALSE

\* The call finds the slot filled and returns it
CallHit(t, a) ==
    /\ MayCall(t, a)
    /\ CacheHit(cache[a])
    /\ ret' = [ret EXCEPT ![t] = [kind |-> "value", op |-> a, val |-> cache[a].val]]
    /\ first' = Returned(a, cache[a].val)
    /\ op' = [op EXCEPT ![t] = a]
    /\ calls' = IF mode = "mt" /\ phase = "solo" THEN calls ELSE calls + 1
    /\ UNCHANGED <<mode, disk, ctor, inst, tree, cache, pc, todo, phase, scans,
                   edits, warm, snap>>
    /\ UNCHANGED ctorVars

\* The call finds the slot None and goes on to compute
CallMiss(t, a) ==
    /\ MayCall(t, a)
    /\ ~CacheHit(cache[a])
    /\ pc' = [pc EXCEPT ![t] = IF PublishesEarly(a) THEN "reset" ELSE "fill"]
    /\ op' = [op EXCEPT ![t] = a]
    /\ ret' = [ret EXCEPT ![t] = NoRet]
    /\ calls' = IF mode = "mt" /\ phase = "solo" THEN calls ELSE calls + 1
    /\ UNCHANGED <<mode, disk, ctor, inst, tree, cache, todo, phase, first, scans,
                   edits, warm, snap>>
    /\ UNCHANGED ctorVars

\* self._x = [], and the loop's findall / iter
Reset(t) ==
    /\ pc[t] = "reset"
    /\ cache' = [cache EXCEPT ![op[t]] = [set |-> TRUE, val |-> <<>>]]
    /\ todo' = [todo EXCEPT ![t] = Items(op[t], tree)]
    /\ scans' = [scans EXCEPT ![op[t]] = @ + 1]
    /\ pc' = [pc EXCEPT ![t] = "loop"]
    /\ UNCHANGED <<mode, disk, ctor, inst, tree, op, ret, calls, phase, first,
                   edits, warm, snap>>
    /\ UNCHANGED ctorVars

\* self._x.append(Record(node))
LoopAppend(t) ==
    /\ pc[t] = "loop"
    /\ todo[t] # <<>>
    /\ LET b == Build(op[t], tree, Head(todo[t]))
       IN  /\ b.ok
           /\ cache' = [cache EXCEPT ![op[t]].val = Append(@, b.val)]
    /\ todo' = [todo EXCEPT ![t] = Tail(@)]
    /\ UNCHANGED <<mode, disk, ctor, inst, tree, pc, op, ret, calls, phase, first,
                   scans, edits, warm, snap>>
    /\ UNCHANGED ctorVars

\* Record(node) raises: the call ends, the slot keeps what was appended
LoopRaise(t) ==
    /\ pc[t] = "loop"
    /\ todo[t] # <<>>
    /\ ~Build(op[t], tree, Head(todo[t])).ok
    /\ ret' = [ret EXCEPT ![t] = [kind |-> "raised", op |-> op[t], val |-> <<>>]]
    /\ pc' = [pc EXCEPT ![t] = "idle"]
    /\ todo' = [todo EXCEPT ![t] = <<>>]
    /\ UNCHANGED <<mode, disk, ctor, inst, tree, cache, op, calls, phase, first,
                   scans, edits, warm, snap>>
    /\ UNCHANGED ctorVars

\* long_descriptions = findall(...); self._descriptions = [e.text for e in ...]
Fill(t) ==
    /\ pc[t] = "fill"
    /\ LET b == BuildList(op[t], tree, Items(op[t], tree), <<>>)
       IN  /\ b.ok
           /\ cache' = [cache EXCEPT ![op[t]] = [set |-> TRUE, val |-> b.val]]
    /\ scans' = [scans EXCEPT ![op[t]] = @ + 1]
    /\ todo' = [todo EXCEPT ![t] = <<>>]
    /\ pc' = [pc EXCEPT ![t] = "loop"]
    /\ UNCHANGED <<mode, disk, ctor, inst, tree, op, ret, calls, phase, first,
                   edits, warm, snap>>
    /\ UNCHANGED ctorVars

\* return self._x
Return(t) ==
    /\ pc[t] = "loop"
    /\ todo[t] = <<>>
    /\ ret' = [ret EXCEPT ![t] = [kind |-> "value", op |-> op[t],
                                  val |-> cache[op[t]].val]]
    /\ first' = Returned(op[t], cache[op[t]].val)
    /\ pc' = [pc EXCEPT ![t] = "idle"]
    /\ UNCHANGED <<mode, disk, ctor, inst, tree, cache, op, todo, calls, phase,
                   scans, edits, warm, snap>>
    /\ UNCHANGED ctorVars

\* ---------------------------------------- the caller, between two calls

EditTags == {"longdescription", "email", "flag", "changelog"}

\* The first element of each of these tags
EditTargets(t) ==
    {i \in 1..Len(t) : /\ t[i].tag \in EditTags
                       /\ \A j \in 1..(i - 1) : t[j].tag # t[i].tag}

\* The caller changes the text of an element of the parsed tree
EditTree(i) ==
    /\ mode = "seq"
    /\ inst = "live"
    /\ pc[1] = "idle"
    /\ edits < MaxEdits
    /\ i \in EditTargets(tree)
    /\ tree' = [tree EXCEPT ![i].text = TxEdited]
    /\ edits' = edits + 1
    /\ ret' = [ret EXCEPT ![1] = NoRet]
    /\ UNCHANGED <<mode, disk, ctor, inst, cache, pc, op, todo, calls, phase,
                   first, scans, warm, snap>>
    /\ UNCHANGED ctorVars

\* The file is removed or replaced on disk
RewriteFile(f) ==
    /\ mode = "seq"
    /\ inst = "live"
    /\ pc[1] = "idle"
    /\ edits < MaxEdits
    /\ f \in {NoFile, File(DocEmpty)}
    /\ f # disk
    /\ disk' = f
    /\ edits' = edits + 1
    /\ ret' = [ret EXCEPT ![1] = NoRet]
    /\ UNCHANGED <<mode, ctor, inst, tree, cache, pc, op, todo, calls, phase,
                   first, scans, warm, snap>>
    /\ UNCHANGED ctorVars

Fresh == \A a \in Accessors : ~cache[a].set

AllReturned == \A a \in Accessors : first[a].set

\* Thread 1 hands the instance to the other threads: as constructed, or after
\* it has called every accessor to completion
Share ==
    /\ mode = "mt"
    /\ phase = "solo"
    /\ inst = "live"
    /\ pc[1] = "idle"
    /\ Fresh \/ AllReturned
    /\ phase' = "shared"
    /\ warm' = AllReturned
    /\ snap' = cache
    /\ calls' = 0
    /\ ret' = [t \in Threads |-> NoRet]
    /\ UNCHANGED <<mode, disk, ctor, inst, tree, cache, pc, op, todo, first, scans,
                   edits>>
    /\ UNCHANGED ctorVars

\* --------------------------------- the record builders, step by step

mdVars == <<mode, disk, ctor, inst, tree, cache, pc, op, todo, ret, calls, phase,
            first, scans, edits, warm, snap>>

\* The elements _Maintainer is built from: the top-level maintainers and the
\* maintainers of the top-level upstream blocks
MaintainerNodes(t) ==
    {i \in 1..Len(t) :
        /\ t[i].tag = "maintainer"
        /\ \/ t[i].parent = 1
           \/ t[i].parent > 1 /\ t[t[i].parent].tag = "upstream"
                              /\ t[t[i].parent].parent = 1}

Built(kind, i, b) == [kind |-> kind, node |-> i, ok |-> b.ok, val |-> b.val]

NewMaintainer(i) ==
    /\ mode = "ctor"
    /\ fpc = "idle"
    /\ i \in MaintainerNodes(tree)
    /\ obj' = Built("maintainer", i, Maintainer(tree, i))
    /\ UNCHANGED <<fpc, desc, rest, chunk, appended>>
    /\ UNCHANGED mdVars

NewUpstream(i) ==
    /\ mode = "ctor"
    /\ fpc = "idle"
    /\ \E k \in 1..Len(Items("upstream", tree)) : Items("upstream", tree)[k] = i
    /\ obj' = Built("upstream", i, Upstream(tree, i))
    /\ UNCHANGED <<fpc, desc, rest, chunk, appended>>
    /\ UNCHANGED mdVars

\* _Useflag.__init__ up to the loop
NewUseflag(i) ==
    /\ mode = "ctor"
    /\ fpc = "idle"
    /\ \E k \in 1..Len(Items("use", tree)) : Items("use", tree)[k] = i
    /\ obj' = [kind |-> "flag", node |-> i, ok |-> FALSE, val |-> <<>>]
    /\ desc' = DescStart(tree[i])
    /\ rest' = FlagChildren(tree, i)
    /\ fpc' = "text"
    /\ chunk' = None
    /\ appended' = FALSE
    /\ UNCHANGED mdVars

\* if child.text and child.text not in _desc: _desc += child.text
FlagText ==
    /\ fpc = "text"
    /\ chunk' = tree[Head(rest)].text
    /\ appended' = AppendsChunk(desc, tree[Head(rest)].text)
    /\ desc' = AppendChunk(desc, tree[Head(rest)].text)
    /\ fpc' = "tail"
    /\ UNCHANGED <<obj, rest>>
    /\ UNCHANGED mdVars

\* if child.tail and not child.tail in _desc: _desc += child.tail
FlagTail ==
    /\ fpc = "tail"
    /\ chunk' = tree[Head(rest)].tail
    /\ appended' = AppendsChunk(desc, tree[Head(rest)].tail)
    /\ desc' = AppendChunk(desc, tree[Head(rest)].tail)
    /\ rest' = Tail(rest)
    /\ fpc' = IF Tail(rest) = <<>> THEN "sub" ELSE "text"
    /\ UNCHANGED obj
    /\ UNCHANGED mdVars

\* self.description = re.sub(r"\s+", " ", _desc)
FlagDone ==
    /\ fpc = "sub"
    /\ obj' = [obj EXCEPT !.ok = TRUE,
                          !.val = [name |-> tree[obj.node].attrs.name,
                                   restrict |-> tree[obj.node].attrs.restrict,
                                   description |-> Collapse(desc)]]
    /\ fpc' = "idle"
    /\ UNCHANGED <<desc, rest, chunk, appended>>
    /\ UNCHANGED mdVars

\* ------------------------------------------------- the specifications

\* One caller: constructs, calls the accessors, edits between calls
Init == mode = "seq" /\ disk \in Files /\ InitCommon

Next ==
    \/ Construct
    \/ \E a \in Accessors : CallHit(1, a)
    \/ \E a \in Accessors : CallMiss(1, a)
    \/ Reset(1)
    \/ LoopAppend(1)
    \/ LoopRaise(1)
    \/ Fill(1)
    \/ Return(1)
    \/ \E i \in 1..Len(tree) : EditTree(i)
    \/ \E f \in Files : RewriteFile(f)

Spec == Init /\ [][Next]_vars

\* Threads sharing one instance, with no lock
InitMT == mode = "mt" /\ disk \in Files /\ InitCommon

NextMT ==
    \/ Construct
    \/ Share
    \/ \E t \in Threads, a \in Accessors : CallHit(t, a)
    \/ \E t \in Threads, a \in Accessors : CallMiss(t, a)
    \/ \E t \in Threads : Reset(t)
    \/ \E t \in Threads : LoopAppend(t)
    \/ \E t \in Threads : LoopRaise(t)
    \/ \E t \in Threads : Fill(t)
    \/ \E t \in Threads : Return(t)

SpecMT == InitMT /\ [][NextMT]_vars

\* The record builders applied to the elements of the parsed documents
InitCtor ==
    /\ mode = "ctor"
    /\ \E d \in WellFormedDocs \cup FlagDocs :
          /\ disk = File(d)
          /\ tree = etree_parse(File(d)).tree
    /\ ctor = "ok"
    /\ inst = "live"
    /\ cache = [a \in Accessors |-> Unset]
    /\ pc = [t \in Threads |-> "idle"]
    /\ op = [t \in Threads |-> ""]
    /\ todo = [t \in Threads |-> <<>>]
    /\ ret = [t \in Threads |-> NoRet]
    /\ calls = 0
    /\ phase = "solo"
    /\ first = [a \in Accessors |-> [set |-> FALSE, val |-> <<>>, scans |-> 0]]
    /\ scans = [a \in Accessors |-> 0]
    /\ edits = 0
    /\ warm = FALSE
    /\ snap = [a \in Accessors |-> Unset]
    /\ obj = NoObj
    /\ fpc = "idle"
    /\ desc = <<>>
    /\ rest = <<>>
    /\ chunk = None
    /\ appended = FALSE

NextCtor ==
    \/ \E i \in 1..Len(tree) : NewMaintainer(i)
    \/ \E i \in 1..Len(tree) : NewUpstream(i)
    \/ \E i \in 1..Len(tree) : NewUseflag(i)
    \/ FlagText
    \/ FlagTail
    \/ FlagDone

SpecCtor == InitCtor /\ [][NextCtor]_vars

\* ---------------------------------------------------------- the claims

\* What a traversal of the tree as it is now would build for accessor a
FullResult(a) == BuildList(a, tree, Items(a, tree), <<>>)

\* C1: for each accessor, once a call has returned, every later call returns
\* the value the first returning call returned, and the tree is not traversed
\* for that accessor again, whatever happened to the tree or the file since.
CachedForever ==
    /\ \A t \in Threads :
          ret[t].kind = "value" => ret[t].val = first[ret[t].op].val
    /\ \A a \in Accessors : first[a].set => scans[a] = first[a].scans

\* A call made after an edit has returned what a traversal would no longer build
StaleValueReturned ==
    /\ edits > 0
    /\ ret[1].kind = "value"
    /\ FullResult(ret[1].op).ok
    /\ ret[1].val # FullResult(ret[1].op).val

\* C2: a missing file makes the constructor raise the read error and a file
\* that is not well formed makes it raise the parse error; then no instance
\* exists and no accessor call has been or can be made.
FailedConstruction ==
    /\ (ctor # "pending" /\ edits = 0 /\ ~disk.exists) => ctor = "ReadError"
    /\ (ctor # "pending" /\ edits = 0 /\ disk.exists
            /\ disk.tokens \in MalformedDocs) => ctor = "ParseError"
    /\ ctor \in {"ReadError", "ParseError"} =>
          /\ inst = "none"
          /\ calls = 0
          /\ Fresh
          /\ \A t \in Threads : pc[t] = "idle" /\ ret[t] = NoRet
          /\ \A t \in Threads, a \in Accessors : ~ENABLED CallMiss(t, a)

\* The constructor has raised on <pkgmetadata><unclosed>
UnclosedRejected == ctor = "ParseError" /\ disk = File(DocUnclosed)

\* C3: no accessor call on a constructed instance raises, and on the empty
\* document every call returns the empty sequence.
AccessorsNeverRaise ==
    /\ \A t \in Threads : ret[t].kind # "raised"
    /\ (disk = File(DocEmpty) /\ edits = 0) =>
          \A t \in Threads : ret[t].kind = "value" => ret[t].val = <<>>

\* The descendants of element i, in document order
Below(i) == (i + 1)..tree[i].last

\* C4: in a built Maintainer, for every tag t of a descendant of the node the
\* field t is the text of the last descendant with tag t; email, name and
\* description are None when no descendant has that tag.
OpenRecord ==
    (obj.kind = "maintainer" /\ obj.ok) =>
        /\ \A j \in Below(obj.node) :
              /\ tree[j].tag \in DOMAIN obj.val
              /\ \E k \in Below(obj.node) :
                    /\ tree[k].tag = tree[j].tag
                    /\ \A m \in Below(obj.node) : tree[m].tag = tree[j].tag => m <= k
                    /\ obj.val[tree[j].tag] = tree[k].text
        /\ \A f \in {"email", "name", "description"} :
              (\A j \in Below(obj.node) : tree[j].tag # f) => obj.val[f] = None

\* A Maintainer built from a node where a tag is repeated with another text
\* and a tag outside email, name, description occurs
RepeatedTagBuilt ==
    /\ obj.kind = "maintainer"
    /\ obj.ok
    /\ \E j, k \in Below(obj.node) :
          j < k /\ tree[j].tag = tree[k].tag /\ tree[j].text # tree[k].text
    /\ \E j \in Below(obj.node) :
          tree[j].tag \notin {"email", "name", "description", "restrict", "status"}

\* C5: a flag's description is its own text followed by the text and the tail
\* of every element nested in it, in document order, duplicates skipped, with
\* whitespace runs collapsed; the flag of the example yields
\* "Enables bar support." wherever it stands.
DescriptionFromNested ==
    (obj.kind = "flag" /\ obj.ok) =>
        /\ obj.val.description =
              Collapse(Accumulate(tree, Range(obj.node + 1, tree[obj.node].last),
                                  DescStart(tree[obj.node])))
        /\ (/\ tree[obj.node].text = TxEnables
            /\ tree[obj.node].last = obj.node + 1
            /\ tree[obj.node + 1].text = TxBar
            /\ tree[obj.node + 1].tail = TxSupport)
           => obj.val.description = TxEnables \o TxBar \o TxSupport

\* The text or tail the loop of _Useflag.__init__ tests next
NextChunk ==
    IF fpc = "text" THEN tree[Head(rest)].text ELSE tree[Head(rest)].tail

\* C6: each step of the loop appends its text or tail exactly when it is not
\* empty and does not occur in the description accumulated so far, and
\* otherwise leaves the description as it is.
DuplicateChunkSkipped ==
    [][(fpc \in {"text", "tail"}) =>
         (desc' = IF NextChunk # None /\ NextChunk # <<>> /\ ~IsSubstr(NextChunk, desc)
                  THEN desc \o NextChunk
                  ELSE desc)]_vars

\* The text of a nested element was tested, was not empty and was not appended
NestedChunkSkipped ==
    /\ obj.kind = "flag"
    /\ fpc = "tail"
    /\ Head(rest) > obj.node
    /\ Truthy(chunk)
    /\ chunk = tree[Head(rest)].text
    /\ ~appended

\* C7: upstream() returns one UpstreamInfo per top-level upstream block, in
\* document order, whose five fields list the block's direct children of the
\* matching kind in document order (remote ids: text first, type second).
UpstreamPerBlock ==
    \A t \in Threads :
        (edits = 0 /\ ret[t].kind = "value" /\ ret[t].op = "upstream") =>
            LET blocks == FindAll(tree, 1, "upstream")
                Kids(u, tag) == FindAll(tree, u, tag)
            IN  /\ Len(ret[t].val) = Len(blocks)
                /\ \A k \in 1..Len(ret[t].val) :
                      LET u == blocks[k]
                          r == ret[t].val[k]
                      IN  /\ Len(r.maintainers) = Len(Kids(u, "maintainer"))
                          /\ r.changelogs =
                                [n \in 1..Len(Kids(u, "changelog")) |->
                                    tree[Kids(u, "changelog")[n]].text]
                          /\ r.bugtrackers =
                                [n \in 1..Len(Kids(u, "bugs-to")) |->
                                    tree[Kids(u, "bugs-to")[n]].text]
                          /\ r.docs =
                                [n \in 1..Len(Kids(u, "doc")) |->
                                    <<tree[Kids(u, "doc")[n]].text,
                                      tree[Kids(u, "doc")[n]].attrs.lang>>]
                          /\ r.remoteids =
                                [n \in 1..Len(Kids(u, "remote-id")) |->
                                    <<tree[Kids(u, "remote-id")[n]].text,
                                      tree[Kids(u, "remote-id")[n]].attrs.type>>]

\* C8: each tuple of _Upstream.remoteids holds the hosting site (the type
\* attribute) in the first slot and the project's id (the text) in the second.
RemoteIdSiteFirst ==
    obj.kind = "upstream" =>
        LET ids == FindAll(tree, obj.node, "remote-id")
        IN  /\ Len(obj.val.remoteids) = Len(ids)
            /\ \A n \in 1..Len(ids) :
                  obj.val.remoteids[n] = <<tree[ids[n]].attrs.type, tree[ids[n]].text>>

EveryReturnComplete ==
    \A t \in Threads :
        (mode = "mt" /\ ret[t].kind = "value") =>
            /\ FullResult(ret[t].op).ok
            /\ ret[t].val = FullResult(ret[t].op).val

\* C10, amended: descriptions() always returns the complete list, and its
\* slot, once not None, holds the complete list.
DescriptionsComplete ==
    LET full == [n \in 1..Len(FindAll(tree, 1, "longdescription")) |->
                    tree[FindAll(tree, 1, "longdescription")[n]].text]
    IN  /\ \A t \in Threads :
              (ret[t].kind = "value" /\ ret[t].op = "descriptions") =>
                  ret[t].val = full
        /\ cache["descriptions"].set => cache["descriptions"].val = full

\* On an instance shared as constructed, one thread has returned a list of
\* descriptions while another is still between its test of the slot and its
\* assignment to it
DescriptionsRace ==
    /\ phase = "shared"
    /\ ~warm
    /\ \E t, u \in Threads :
          /\ pc[t] = "fill"
          /\ op[t] = "descriptions"
          /\ ret[u].kind = "value"
          /\ ret[u].op = "descriptions"
          /\ ret[u].val # <<>>

====
